---- MODULE Spec2Model ----
(***************************************************************************)
(* BCParks assets data workflow (bcparks_assets_data_workflow.py).         *)
(*                                                                         *)
(* Three specifications over one set of variables:                         *)
(*   Spec        the __main__ script: database phase, then publish phase;  *)
(*   SpecMgr     PostgresDBManager and AGOManager driven by arbitrary      *)
(*               sequences of calls of their public methods;               *)
(*   SpecAssets  process_assets applied to bounded input tables.           *)
(*                                                                         *)
(* External libraries (psycopg2, pandas, arcgis) are the environment: a    *)
(* library call either returns or raises, chosen nondeterministically.     *)
(* Only warning- and error-level log records are kept in log.              *)
(***************************************************************************)
EXTENDS Integers, Sequences, FiniteSets, TLC

VARIABLES
    pc,          \* position in the running script / harness
    connection,  \* PostgresDBManager.connection: "None" | "open"
    cursor,      \* PostgresDBManager.cursor: "None" | "cursor"
    conn,        \* __main__'s local conn (value returned by pg.connect())
    gis,         \* AGOManager.gis: "None" | "anon" (users.me is None) | "user"
    store,       \* remote content store: a set of items
    store0,      \* the content store as it was when the run started
    nextId,      \* id the platform gives the next created item
    df_ast,      \* table returned by read_assets
    gdf_ast,     \* table returned by process_assets
    gdf_trl,     \* number of rows of the trails table (shape[0])
    ret,         \* value returned by the last method call
    exc,         \* exception raised by the last method call, or "none"
    pending,     \* exception propagating out of a try statement of __main__
    log,         \* warning/error log records
    trace        \* calls made on the database, the platform and the managers

vars == <<pc, connection, cursor, conn, gis, store, store0, nextId, df_ast,
          gdf_ast, gdf_trl, ret, exc, pending, log, trace>>

----------------------------------------------------------------------------
(* Bounds *)

MaxRows == 1        \* rows of a generated input table of process_assets
MaxTrailRows == 1   \* rows of the trails table
MaxNewItems == 3    \* items the harness may create on the platform

----------------------------------------------------------------------------
(* process_assets *)

cats == {"Grounds", "Furniture and Amenities", "Signs", "Water Service",
         "Transportation", "Stormwater", "Bridges", "Structures", "Trails",
         "Buildings", "Electrical Telcomm Service", "Wastewater Service",
         "Water Management", "Fuel Storage"}

lat_min == 47
lat_max == 60
lon_min == -145
lon_max == -113

\* A coordinate cell: a float, or NaN (missing).  Comparisons with NaN are
\* false, as in pandas/IEEE.
NaN == [isna |-> TRUE, v |-> 0]
Num(n) == [isna |-> FALSE, v |-> n]
Ge(x, c) == ~x.isna /\ x.v >= c
Le(x, c) == ~x.isna /\ x.v <= c

\* df[df['asset_category'].isin(cats)]
FilterCategories(df) == SelectSeq(df, LAMBDA r : r.asset_category \in cats)

\* df.rename(columns=ast_cols) ; df[ast_cols.values()]
RenameRow(r) ==
    ("Category - Classification" :> r.asset_category)
    @@ ("GIS Latitude" :> r.gis_latitude)
    @@ ("GIS Longitude" :> r.gis_longitude)

RenameColumns(df) == [i \in DOMAIN df |-> RenameRow(df[i])]

\* df.dropna(subset=[latcol, loncol])
DropNa(df, latcol, loncol) ==
    SelectSeq(df, LAMBDA r : ~r[latcol].isna /\ ~r[loncol].isna)

\* Faulty variant of InBox: the edges of the box excluded
InBoxStrict(r, latcol, loncol) ==
    /\ Ge(r[latcol], lat_min + 1) /\ Le(r[latcol], lat_max - 1)
    /\ Ge(r[loncol], lon_min + 1) /\ Le(r[loncol], lon_max - 1)

\* (lat >= lat_min) & (lat <= lat_max) & (lon >= lon_min) & (lon <= lon_max)
InBox(r, latcol, loncol) ==
    /\ Ge(r[latcol], lat_min) /\ Le(r[latcol], lat_max)
    /\ Ge(r[loncol], lon_min) /\ Le(r[loncol], lon_max)

KeepWithinBC(df, latcol, loncol) ==
    SelectSeq(df, LAMBDA r : InBox(r, latcol, loncol))

\* gpd.points_from_xy(df[loncol], df[latcol])
AddGeometry(df, latcol, loncol) ==
    [i \in DOMAIN df |->
        df[i] @@ ("geometry" :> <<df[i][loncol].v, df[i][latcol].v>>)]

process_assets(df, latcol, loncol) ==
    AddGeometry(
        KeepWithinBC(
            DropNa(RenameColumns(FilterCategories(df)), latcol, loncol),
            latcol, loncol),
        latcol, loncol)

latcol_main == "GIS Latitude"
loncol_main == "GIS Longitude"

\* Input rows: every allow-list category and two others; coordinates on, just
\* inside and just outside each edge of the box, and missing.
SampleCategories == cats \cup {"Parking", "None"}
SampleLat == {NaN, Num(lat_min - 1), Num(lat_min), Num(lat_max), Num(lat_max + 1)}
SampleLon == {NaN, Num(lon_min - 1), Num(lon_min), Num(lon_max), Num(lon_max + 1)}

AssetRows == [asset_category : SampleCategories,
              gis_latitude : SampleLat, gis_longitude : SampleLon]

Row(c, la, lo) == [asset_category |-> c, gis_latitude |-> la, gis_longitude |-> lo]

\* The 10-row scenario: 2 'Parking', 8 'Signs' of which one has a null
\* longitude and one has longitude -200.
Scenario10 ==
    << Row("Parking", Num(50), Num(-120)), Row("Signs", Num(50), Num(-120)),
       Row("Signs", Num(50), NaN),         Row("Signs", Num(47), Num(-145)),
       Row("Signs", Num(50), Num(-200)),   Row("Signs", Num(60), Num(-113)),
       Row("Parking", Num(55), Num(-130)), Row("Signs", Num(49), Num(-123)),
       Row("Signs", Num(59), Num(-114)),   Row("Signs", Num(48), Num(-144)) >>

BoundedTables == UNION {[1..n -> AssetRows] : n \in 0..MaxRows}

AssetTables == BoundedTables \cup {Scenario10}

----------------------------------------------------------------------------
(* Log records and call events *)

Error(m) == [level |-> "error", msg |-> m]
Warning(m) == [level |-> "warning", msg |-> m]
\* A call event: the call, its title argument ("" when it has none), whether
\* it returned ("ok") or raised, and the ids of the items a delete removed.
Event(op, title, result, ids) ==
    [op |-> op, title |-> title, result |-> result, ids |-> ids]
Ev(op, title) == Event(op, title, "ok", {})
Raised(op, title) == Event(op, title, "raised", {})
Result(e) == IF e = "none" THEN "ok" ELSE "raised"
\* the result of a library call that ended with `outcome`
LibResult(outcome) == IF outcome \in {"ok", "anon", "user"} THEN "ok" ELSE "raised"

\* A method is an operator giving what a call leaves behind: the fields it
\* sets, the value it returns, the exception it raises, what it logs and the
\* library calls it makes.

----------------------------------------------------------------------------
(* PostgresDBManager *)

\* psycopg2.connect either returns a connection or raises OperationalError
ConnectOutcomes == {"ok", "OperationalError"}

\* Faulty variant of pg_connect: OperationalError not caught
pg_connect_raising(outcome) ==
    IF outcome = "ok"
    THEN [connection |-> "open", ret |-> "open", exc |-> "none", log |-> << >>]
    ELSE [connection |-> "None", ret |-> "None", exc |-> "OperationalError",
          log |-> << >>]

pg_connect(outcome) ==
    IF outcome = "ok"
    THEN [connection |-> "open", ret |-> "open", exc |-> "none", log |-> << >>]
    ELSE [connection |-> "None", ret |-> "None", exc |-> "none",
          log |-> << Error("error connecting to database") >>]

\* connection.cursor() either returns a cursor or raises DatabaseError
CursorOutcomes == {"ok", "DatabaseError"}

pg_create_cursor(c, cur, outcome) ==
    IF c # "None"
    THEN IF outcome = "ok"
         THEN [cursor |-> "cursor", log |-> << >>]
         ELSE [cursor |-> "None", log |-> << Error("error creating cursor") >>]
    ELSE [cursor |-> cur, log |-> << Warning("no active connection") >>]

\* connection.close() either returns or raises DatabaseError
CloseOutcomes == {"ok", "DatabaseError"}

pg_disconnect(c, cur, outcome) ==
    IF c # "None"
    THEN [connection |-> "None", cursor |-> "None",
          log |-> IF outcome = "ok" THEN << >>
                  ELSE << Error("Error closing connection") >>,
          trace |-> << Event("close", "", LibResult(outcome), {}) >>]
    ELSE [connection |-> c, cursor |-> cur,
          log |-> << Warning("no active database connection to close") >>,
          trace |-> << >>]

----------------------------------------------------------------------------
(* The remote content store *)

Me == "dss"
Other == "someone"

AstTitle == "PARC_L1G_Park_Asset_Data_Feature_Layer_v2"
TrlTitle == "PARC_L1G_Park_Trail_Data_Feature_Layer_v2"
AstTitleLong == "PARC_L1G_Park_Asset_Data_Feature_Layer_v2 backup"

Item(i, t, ty, o) == [id |-> i, title |-> t, type |-> ty, owner |-> o]

\* Items that may be in the store before the run: two same-titled GeoJson
\* items of the user, one of another owner, a feature service of that title,
\* a GeoJson item whose title only contains the searched title, and a trails
\* GeoJson item.
Pool == { Item(1, AstTitle, "GeoJson", Me),
          Item(2, AstTitle, "GeoJson", Me),
          Item(3, AstTitle, "GeoJson", Other),
          Item(4, AstTitle, "Feature Service", Me),
          Item(5, AstTitleLong, "GeoJson", Me),
          Item(6, TrlTitle, "GeoJson", Me) }

FirstNewId == Cardinality(Pool) + 1

\* The platform's title: term matches every title holding the searched
\* words, not only the equal one.
TitleTermMatches(q, t) == t = q \/ (q = AstTitle /\ t = AstTitleLong)

\* gis.content.search('title:"<title>" AND owner:<me>', item_type="GeoJson")
content_search(st, title) ==
    {i \in st : i.owner = Me /\ i.type = "GeoJson" /\ TitleTermMatches(title, i.title)}

GeoJsonOf(st, title, owner) ==
    {i \in st : i.title = title /\ i.type = "GeoJson" /\ i.owner = owner}

\* new_geojson_item.publish(overwrite=True): the hosted feature layer of that
\* title is overwritten when the user has one, and created otherwise.
item_publish(st, nid, title) ==
    IF \E i \in st : i.title = title /\ i.type = "Feature Service" /\ i.owner = Me
    THEN [store |-> st, nextId |-> nid]
    ELSE [store |-> st \cup {Item(nid, title, "Feature Service", Me)},
          nextId |-> nid + 1]

----------------------------------------------------------------------------
(* AGOManager *)

\* GIS(host, username, password) raises, or returns a session: an anonymous
\* one (users.me is None) or one of an identified user.
GisOutcomes == {"raise", "anon", "user"}

ago_connect(g, outcome) ==
    CASE outcome = "raise" ->
            [gis |-> g, exc |-> "Exception", log |-> << >>]
      [] outcome = "anon" ->
            [gis |-> "anon", exc |-> "ConnectionError",
             log |-> << Error("connection to AGOL failed") >>]
      [] OTHER ->
            [gis |-> "user", exc |-> "none", log |-> << >>]

\* existing_items = [item for item in existing_items if item.title == title]
existing_items(st, title) == {i \in content_search(st, title) : i.title = title}

\* Faulty variant of delete_items: the delete loop left out
delete_nothing(st, items) == st

\* for item in existing_items: if item.type == 'GeoJson': item.delete(force=True)
delete_items(st, items) == st \ {i \in items : i.type = "GeoJson"}

\* Faulty variant of except_handler: the error logged and not re-raised
except_swallow(st) ==
    [store |-> st, exc |-> "none",
     log |-> << Error("error publishing/updating feature layer") >>]

\* except Exception as e: logging.error(...); raise RuntimeError(...)
except_handler(st) ==
    [store |-> st, exc |-> "RuntimeError",
     log |-> << Error("error publishing/updating feature layer") >>]

\* Where a publish_feature_layer call fails: nowhere, or in the search, in a
\* delete, in content.add or in publish.
PublishFailures == {"none", "search", "delete", "add", "publish"}

\* deleted: the items already deleted when a delete raises
publish_feature_layer(g, st, nid, title, fail, deleted) ==
    IF g = "None"
    THEN [store |-> st, nextId |-> nid, exc |-> "RuntimeError", log |-> << >>,
          trace |-> << >>]
    ELSE IF g = "anon"
    THEN \* self.gis.users.me.username: AttributeError inside the try block
         except_handler(st) @@ [nextId |-> nid, trace |-> << >>]
    ELSE LET found == existing_items(st, title)
             cleared == delete_items(st, found)
             uploaded == cleared \cup {Item(nid, title, "GeoJson", Me)}
             published == item_publish(uploaded, nid + 1, title)
             dels == IF found = {} THEN << >>
                     ELSE << Event("delete", title, "ok", {i.id : i \in found}) >>
         IN CASE fail = "search" ->
                    except_handler(st)
                    @@ [nextId |-> nid, trace |-> << Raised("search", title) >>]
              [] fail = "delete" ->
                    except_handler(delete_items(st, deleted))
                    @@ [nextId |-> nid,
                        trace |-> << Ev("search", title),
                                     Event("delete", title, "raised",
                                           {i.id : i \in deleted}) >>]
              [] fail = "add" ->
                    except_handler(cleared)
                    @@ [nextId |-> nid,
                        trace |-> << Ev("search", title) >> \o dels
                                  \o << Raised("add", title) >>]
              [] fail = "publish" ->
                    except_handler(uploaded)
                    @@ [nextId |-> nid + 1,
                        trace |-> << Ev("search", title) >> \o dels
                                  \o << Ev("add", title), Raised("publish", title) >>]
              [] OTHER ->
                    [store |-> published.store, nextId |-> published.nextId,
                     exc |-> "none", log |-> << >>,
                     trace |-> << Ev("search", title) >> \o dels
                               \o << Ev("add", title), Ev("publish", title) >>]

\* The (fail, deleted) pairs that can happen on store st for title
PublishCases(g, st, title) ==
    LET found == IF g = "user" THEN existing_items(st, title) ELSE {}
    IN {<<f, found>> : f \in PublishFailures \ {"delete"}}
       \cup {<<"delete", d>> : d \in (SUBSET found) \ {found}}

ago_disconnect(g) ==
    IF g # "None"
    THEN [gis |-> "None", log |-> << >>]
    ELSE [gis |-> g,
          log |-> << Warning("No active AGOL connection to disconnect") >>]

----------------------------------------------------------------------------
(* SpecMgr: the two managers under arbitrary sequences of method calls.    *)
(* pc names the method called last, title its title argument; ret, exc,    *)
(* log and trace are those of that call.                                   *)

InitCommon ==
    /\ connection = "None" /\ cursor = "None"      \* PostgresDBManager.__init__
    /\ gis = "None"                                \* AGOManager.__init__
    /\ store \in SUBSET Pool /\ store0 = store
    /\ nextId = FirstNewId
    /\ conn = "unset" /\ df_ast = << >> /\ gdf_ast = << >> /\ gdf_trl = 0
    /\ ret = "None" /\ exc = "none" /\ pending = "none"
    /\ log = << >> /\ trace = << >>

InitMgr == InitCommon /\ pc = "start"

InHarness == pc \in {"start", "pg.connect", "pg.create_cursor", "pg.disconnect",
                     "ago.connect", "ago.publish_feature_layer:assets",
                     "ago.publish_feature_layer:trails", "ago.disconnect"}

MainUnchanged == UNCHANGED <<conn, df_ast, gdf_ast, gdf_trl, pending, store0>>

Call_pg_connect ==
    /\ InHarness
    /\ \E o \in ConnectOutcomes :
         LET r == pg_connect(o)
         IN /\ connection' = r.connection
            /\ ret' = r.ret /\ exc' = r.exc /\ log' = r.log
            /\ trace' = << Event("psycopg2.connect", "", LibResult(o), {}) >>
    /\ pc' = "pg.connect"
    /\ UNCHANGED <<cursor, gis, store, nextId>>
    /\ MainUnchanged

Call_pg_create_cursor ==
    /\ InHarness
    /\ \E o \in CursorOutcomes :
         LET r == pg_create_cursor(connection, cursor, o)
         IN cursor' = r.cursor /\ log' = r.log
    /\ ret' = "None" /\ exc' = "none" /\ trace' = << >>
    /\ pc' = "pg.create_cursor"
    /\ UNCHANGED <<connection, gis, store, nextId>>
    /\ MainUnchanged

Call_pg_disconnect ==
    /\ InHarness
    /\ \E o \in CloseOutcomes :
         LET r == pg_disconnect(connection, cursor, o)
         IN /\ connection' = r.connection /\ cursor' = r.cursor
            /\ log' = r.log /\ trace' = r.trace
    /\ ret' = "None" /\ exc' = "none"
    /\ pc' = "pg.disconnect"
    /\ UNCHANGED <<gis, store, nextId>>
    /\ MainUnchanged

Call_ago_connect ==
    /\ InHarness
    /\ \E o \in GisOutcomes :
         LET r == ago_connect(gis, o)
         IN /\ gis' = r.gis /\ exc' = r.exc /\ log' = r.log
            /\ trace' = << Event("GIS", "", LibResult(o), {}) >>
    /\ ret' = "None"
    /\ pc' = "ago.connect"
    /\ UNCHANGED <<connection, cursor, store, nextId>>
    /\ MainUnchanged

\* The harness stops creating items at MaxNewItems (a call makes at most two).
Call_ago_publish(t, name) ==
    /\ InHarness
    /\ nextId + 2 <= FirstNewId + MaxNewItems
    /\ \E c \in PublishCases(gis, store, t) :
         LET r == publish_feature_layer(gis, store, nextId, t, c[1], c[2])
         IN /\ store' = r.store /\ nextId' = r.nextId
            /\ exc' = r.exc /\ log' = r.log /\ trace' = r.trace
    /\ ret' = "None"
    /\ pc' = name
    /\ UNCHANGED <<connection, cursor, gis>>
    /\ MainUnchanged

Call_ago_publish_assets == Call_ago_publish(AstTitle, "ago.publish_feature_layer:assets")

Call_ago_publish_trails == Call_ago_publish(TrlTitle, "ago.publish_feature_layer:trails")

Call_ago_disconnect ==
    /\ InHarness
    /\ LET r == ago_disconnect(gis)
       IN gis' = r.gis /\ log' = r.log
    /\ ret' = "None" /\ exc' = "none" /\ trace' = << >>
    /\ pc' = "ago.disconnect"
    /\ UNCHANGED <<connection, cursor, store, nextId>>
    /\ MainUnchanged

NextMgr ==
    \/ Call_pg_connect
    \/ Call_pg_create_cursor
    \/ Call_pg_disconnect
    \/ Call_ago_connect
    \/ Call_ago_publish_assets
    \/ Call_ago_publish_trails
    \/ Call_ago_disconnect

SpecMgr == InitMgr /\ [][NextMgr]_vars

----------------------------------------------------------------------------
(* Spec: the __main__ script.  pc is the line about to run; "done" is the  *)
(* normal end, "failed" the end by a propagated exception.  log and trace  *)
(* accumulate over the run.                                                *)

Init == InitCommon /\ pc = "L457"

\* Tables read_assets may return to the script
MainTables == {<< >>, Scenario10} \cup {<<r>> : r \in
                 {Row("Signs", Num(50), Num(-120)), Row("Signs", Num(50), NaN),
                  Row("Parking", Num(50), Num(-120))}}

\* Faulty variant of try_on_raise: no finally clause
try_no_finally(from) == [pc |-> "failed", pending |-> "Exception"]

\* Faulty variant of try_on_raise: the except clause does not re-raise
try_swallow(from) ==
    [pc |-> IF from = "db" THEN "L480" ELSE "L515", pending |-> "none"]

\* except Exception as e: raise Exception(...)  then the finally clause
try_on_raise(from) ==
    [pc |-> IF from = "db" THEN "L480" ELSE "L515", pending |-> "Exception"]

\* Faulty variant of publish_phase_raise: the assets publish in a try block
\* of its own
after_raise_continue(at) ==
    IF at = "L497" THEN [pc |-> "L502", pending |-> "none"]
    ELSE try_on_raise("publish")

\* an exception raised by the statement at line `at` of the publish phase
publish_phase_raise(at) == try_on_raise("publish")

\* after a finally clause: the pending exception propagates, or the script
\* goes on
after_finally(p, next) == IF p # "none" THEN "failed" ELSE next

\* Faulty variant of has_rows: the emptiness test left out
always_rows(n) == TRUE

\* gdf.shape[0] > 0
has_rows(n) == n > 0

Raise(from) ==
    LET t == try_on_raise(from) IN pc' = t.pc /\ pending' = t.pending

MgrUnchanged == UNCHANGED <<connection, cursor, gis, store, store0, nextId>>

\* conn = pg.connect()
L457_pg_connect ==
    /\ pc = "L457"
    /\ \E o \in ConnectOutcomes :
         LET r == pg_connect(o)
         IN /\ connection' = r.connection /\ ret' = r.ret /\ exc' = r.exc
            /\ log' = log \o r.log
            /\ trace' = trace
                        \o << Event("psycopg2.connect", "", LibResult(o), {}),
                              Event("pg.connect", "", Result(r.exc), {}) >>
            /\ IF r.exc = "none"
               THEN conn' = r.ret /\ pc' = "L460" /\ UNCHANGED pending
               ELSE Raise("db") /\ UNCHANGED conn
    /\ UNCHANGED <<cursor, gis, store, store0, nextId, df_ast, gdf_ast, gdf_trl>>

\* df_ast = read_assets(conn): pd.read_sql raises on a null connection, and
\* may raise on an open one
L460_read_assets ==
    /\ pc = "L460"
    /\ \/ /\ conn = "None"
          /\ exc' = "Exception" /\ Raise("db") /\ UNCHANGED df_ast
       \/ /\ conn # "None"
          /\ \/ /\ exc' = "Exception" /\ Raise("db") /\ UNCHANGED df_ast
             \/ /\ df_ast' \in MainTables
                /\ exc' = "none" /\ pc' = "L463" /\ UNCHANGED pending
    /\ trace' = trace \o << Event("read_assets", "", Result(exc'), {}) >>
    /\ ret' = "None"
    /\ UNCHANGED <<conn, gdf_ast, gdf_trl, log>>
    /\ MgrUnchanged

\* gdf_trl = read_trails(conn)
L463_read_trails ==
    /\ pc = "L463"
    /\ \/ /\ exc' = "Exception" /\ Raise("db") /\ UNCHANGED gdf_trl
       \/ /\ gdf_trl' \in 0..MaxTrailRows
          /\ exc' = "none" /\ pc' = "L469" /\ UNCHANGED pending
    /\ trace' = trace \o << Event("read_trails", "", Result(exc'), {}) >>
    /\ ret' = "None"
    /\ UNCHANGED <<conn, df_ast, gdf_ast, log>>
    /\ MgrUnchanged

\* gdf_ast = process_assets(df_ast, latcol, loncol); a table lacking one of
\* the renamed columns makes it raise (KeyError)
L469_process_assets ==
    /\ pc = "L469"
    /\ \/ /\ exc' = "KeyError" /\ Raise("db") /\ UNCHANGED gdf_ast
       \/ /\ gdf_ast' = process_assets(df_ast, latcol_main, loncol_main)
          /\ exc' = "none" /\ pc' = "L473" /\ UNCHANGED pending
    /\ trace' = trace \o << Event("process_assets", "", Result(exc'), {}) >>
    /\ ret' = "None"
    /\ UNCHANGED <<conn, df_ast, gdf_trl, log>>
    /\ MgrUnchanged

\* gdf_trl = process_trails(gdf_trl): keeps every row, or raises
L473_process_trails ==
    /\ pc = "L473"
    /\ \/ /\ exc' = "Exception" /\ Raise("db")
       \/ /\ exc' = "none" /\ pc' = "L480" /\ UNCHANGED pending
    /\ trace' = trace \o << Event("process_trails", "", Result(exc'), {}) >>
    /\ ret' = "None"
    /\ UNCHANGED <<conn, df_ast, gdf_ast, gdf_trl, log>>
    /\ MgrUnchanged

\* finally: pg.disconnect()
L480_pg_disconnect ==
    /\ pc = "L480"
    /\ \E o \in CloseOutcomes :
         LET r == pg_disconnect(connection, cursor, o)
         IN /\ connection' = r.connection /\ cursor' = r.cursor
            /\ log' = log \o r.log
            /\ trace' = trace \o r.trace \o << Ev("pg.disconnect", "") >>
    /\ ret' = "None" /\ exc' = "none"
    /\ pc' = after_finally(pending, "L489")
    /\ UNCHANGED <<conn, gis, store, store0, nextId, df_ast, gdf_ast, gdf_trl,
                   pending>>

PublishRaise(at) ==
    LET t == publish_phase_raise(at) IN pc' = t.pc /\ pending' = t.pending

\* ago = AGOManager(...); ago.connect()
L489_ago_connect ==
    /\ pc = "L489"
    /\ \E o \in GisOutcomes :
         LET r == ago_connect(gis, o)
         IN /\ gis' = r.gis /\ exc' = r.exc /\ log' = log \o r.log
            /\ trace' = trace
                        \o << Event("GIS", "", LibResult(o), {}),
                              Event("ago.connect", "", Result(r.exc), {}) >>
            /\ IF r.exc = "none"
               THEN pc' = "L492" /\ UNCHANGED pending
               ELSE PublishRaise("L489")
    /\ ret' = "None"
    /\ UNCHANGED <<connection, cursor, conn, store, store0, nextId, df_ast,
                   gdf_ast, gdf_trl>>

\* if gdf.shape[0] > 0: (publish) else: logging.error(...)
IfRows(at, n, then, else, msg) ==
    /\ pc = at
    /\ IF has_rows(n)
       THEN pc' = then /\ UNCHANGED log
       ELSE pc' = else /\ log' = log \o << Error(msg) >>
    /\ UNCHANGED <<connection, cursor, conn, gis, store, store0, nextId,
                   df_ast, gdf_ast, gdf_trl, ret, exc, pending, trace>>

L492_if_assets ==
    IfRows("L492", Len(gdf_ast), "L497", "L502", "Assets dataset is empty")

L502_if_trails ==
    IfRows("L502", gdf_trl, "L507", "done_try", "Trails dataset is empty")

\* ago.publish_feature_layer(gdf, title, geojson_name, item_desc, folder)
Publish(at, t, next) ==
    /\ pc = at
    /\ \E c \in PublishCases(gis, store, t) :
         LET r == publish_feature_layer(gis, store, nextId, t, c[1], c[2])
         IN /\ store' = r.store /\ nextId' = r.nextId
            /\ exc' = r.exc /\ log' = log \o r.log
            /\ trace' = trace \o r.trace
                        \o << Event("publish_feature_layer", t, Result(r.exc), {}) >>
            /\ IF r.exc = "none"
               THEN pc' = next /\ UNCHANGED pending
               ELSE PublishRaise(at)
    /\ ret' = "None"
    /\ UNCHANGED <<connection, cursor, conn, gis, store0, df_ast, gdf_ast,
                   gdf_trl>>

L497_publish_assets == Publish("L497", AstTitle, "L502")

L507_publish_trails == Publish("L507", TrlTitle, "done_try")

\* the try block ends without an exception
L510_end_try ==
    /\ pc = "done_try"
    /\ pc' = "L515"
    /\ UNCHANGED <<connection, cursor, conn, gis, store, store0, nextId,
                   df_ast, gdf_ast, gdf_trl, ret, exc, pending, log, trace>>

\* finally: ago.disconnect()
L515_ago_disconnect ==
    /\ pc = "L515"
    /\ LET r == ago_disconnect(gis)
       IN gis' = r.gis /\ log' = log \o r.log
    /\ trace' = trace \o << Ev("ago.disconnect", "") >>
    /\ ret' = "None" /\ exc' = "none"
    /\ pc' = after_finally(pending, "done")
    /\ UNCHANGED <<connection, cursor, conn, store, store0, nextId, df_ast,
                   gdf_ast, gdf_trl, pending>>

Next ==
    \/ L457_pg_connect
    \/ L460_read_assets
    \/ L463_read_trails
    \/ L469_process_assets
    \/ L473_process_trails
    \/ L480_pg_disconnect
    \/ L489_ago_connect
    \/ L492_if_assets
    \/ L497_publish_assets
    \/ L502_if_trails
    \/ L507_publish_trails
    \/ L510_end_try
    \/ L515_ago_disconnect

Spec == Init /\ [][Next]_vars

----------------------------------------------------------------------------
(* SpecAssets: process_assets on every table of AssetTables. *)

InitAssets ==
    /\ InitCommon /\ store = {}
    /\ pc = "process_assets"

LoadTable ==
    /\ pc = "process_assets"
    /\ df_ast' \in AssetTables
    /\ pc' = "loaded"
    /\ UNCHANGED <<connection, cursor, conn, gis, store, store0, nextId,
                   gdf_ast, gdf_trl, ret, exc, pending, log, trace>>

ApplyProcessAssets ==
    /\ pc = "loaded"
    /\ gdf_ast' = process_assets(df_ast, latcol_main, loncol_main)
    /\ pc' = "processed"
    /\ UNCHANGED <<connection, cursor, conn, gis, store, store0, nextId,
                   df_ast, gdf_trl, ret, exc, pending, log, trace>>

NextAssets == LoadTable \/ ApplyProcessAssets

SpecAssets == InitAssets /\ [][NextAssets]_vars

----------------------------------------------------------------------------
(* Properties *)

Events(tr) == {tr[i] : i \in DOMAIN tr}
Last(tr) == tr[Len(tr)]
Terminated == pc \in {"done", "failed"}

PublishCalls == {"ago.publish_feature_layer:assets", "ago.publish_feature_layer:trails"}
TitleOf(p) == IF p = "ago.publish_feature_layer:assets" THEN AstTitle ELSE TrlTitle
PublishError == Error("error publishing/updating feature layer")

CountOf(st, t) == Cardinality(GeoJsonOf(st, t, Me))

\* a successful call for a title right after a successful call for it
SecondPublishKeepsCount ==
    (pc \in PublishCalls /\ exc = "none" /\ pc' = pc /\ exc' = "none")
        => CountOf(store', TitleOf(pc)) = CountOf(store, TitleOf(pc))

\* C1: after a successful publish_feature_layer call the store holds exactly
\* one GeoJson item of that title owned by the user, whatever the store held
\* before; and a successful call that follows a successful call for the same
\* title leaves that count unchanged.
C1_PublishIdempotent ==
    /\ [](pc \in PublishCalls /\ exc = "none" => CountOf(store, TitleOf(pc)) = 1)
    /\ [][SecondPublishKeepsCount]_vars

\* a second successful assets publish in a row, on a store that started with
\* two GeoJson items of that title
C1_Witness ==
    /\ pc = "ago.publish_feature_layer:assets" /\ exc = "none"
    /\ {Item(1, AstTitle, "GeoJson", Me), Item(2, AstTitle, "GeoJson", Me),
        Item(4, AstTitle, "Feature Service", Me)} \subseteq store0
    /\ nextId = FirstNewId + 2
    /\ GeoJsonOf(store, AstTitle, Me) = {Item(FirstNewId + 1, AstTitle, "GeoJson", Me)}

\* a publish_feature_layer call in which a library call raised
FailedPublishStep ==
    pc' \in PublishCalls /\ trace' # << >> /\ Last(trace').result = "raised"

FailedPublishEffect ==
    LET t == TitleOf(pc')
        gone == UNION {e.ids : e \in Events(trace')}
        added == IF Ev("add", t) \in Events(trace')
                 THEN {Item(nextId, t, "GeoJson", Me)} ELSE {}
    IN /\ exc' = "RuntimeError"
       /\ log' = << PublishError >>
       /\ store' = {i \in store : i.id \notin gone} \cup added
       /\ (Last(trace').op = "add" => GeoJsonOf(store', t, Me) = {})

\* C5: a publish_feature_layer call in which search, delete, content.add or
\* publish raises ends with RuntimeError and one error log record, and the
\* store is left as the steps before the failure made it: the deleted items
\* stay deleted and an uploaded item stays uploaded.  When every same-titled
\* item was deleted and the upload raises, no GeoJson item of that title is
\* left.
C5_ErrorNoRollback == [][FailedPublishStep => FailedPublishEffect]_vars

\* the upload raised after both same-titled items were deleted
C5_Witness ==
    /\ pc = "ago.publish_feature_layer:assets"
    /\ trace = << Ev("search", AstTitle),
                  Event("delete", AstTitle, "ok", {1, 2}),
                  Raised("add", AstTitle) >>
    /\ exc = "RuntimeError"
    /\ GeoJsonOf(store, AstTitle, Me) = {}

\* C7: PostgresDBManager.connect never raises: when psycopg2.connect fails it
\* logs an error, leaves connection null and returns null; when it succeeds
\* it returns the open connection, which is also the manager's connection.
C7_ConnectNeverRaises ==
    pc = "pg.connect" =>
        /\ exc = "none"
        /\ IF trace[1].result = "raised"
           THEN /\ connection = "None" /\ ret = "None"
                /\ log = << Error("error connecting to database") >>
           ELSE connection = "open" /\ ret = connection /\ log = << >>

C7_Witness ==
    /\ pc = "pg.connect" /\ trace[1].result = "raised"
    /\ connection = "None" /\ ret = "None" /\ exc = "none"

\* C8: after AGOManager.connect fails because no current user is identified
\* (ConnectionError), the session handle gis is null.
C8_FailedConnectLeavesGisNull ==
    pc = "ago.connect" /\ exc = "ConnectionError"
        => log = << Error("connection to AGOL failed") >> /\ gis = "None"

\* C9: after disconnect, of either manager and from any state, nothing is
\* raised and the connection and cursor (the session handle) are null.
C9_DisconnectReleases ==
    /\ pc = "pg.disconnect"
         => exc = "none" /\ connection = "None" /\ cursor = "None"
    /\ pc = "ago.disconnect" => exc = "none" /\ gis = "None"

----------------------------------------------------------------------------
(* Properties of the __main__ script *)

Did(op, title, result) == Event(op, title, result, {}) \in Events(trace)
RemoteOps == {"search", "delete", "add", "publish", "publish_feature_layer"}
RemoteCalls(title) == {e \in Events(trace) : e.op \in RemoteOps /\ e.title = title}
DbOps == {"psycopg2.connect", "pg.connect", "read_assets", "read_trails",
          "process_assets", "process_trails"}
DbPhaseFailed == \E e \in Events(trace) : e.op \in DbOps /\ e.result = "raised"
PublishPhase == {"L489", "L492", "L497", "L502", "L507", "done_try", "L515", "done"}
AgoConnected == Did("ago.connect", "", "ok")

\* C2: when the script has ended, normally or by an exception, pg.disconnect
\* was executed, ago.disconnect was executed if the publish phase was
\* entered, and the connection, the cursor and the session handle are null.
C2_CleanupGuaranteed ==
    Terminated =>
        /\ Did("pg.disconnect", "", "ok")
        /\ (\E e \in Events(trace) : e.op = "ago.connect")
              => Did("ago.disconnect", "", "ok")
        /\ connection = "None" /\ cursor = "None" /\ gis = "None"

\* the run ended by an exception of the trails publish, after the database
\* had been connected and closed
C2_Witness ==
    /\ pc = "failed" /\ Did("close", "", "ok")
    /\ Did("publish_feature_layer", TrlTitle, "raised")
    /\ connection = "None" /\ gis = "None"

PublishCalled(title) ==
    \E e \in Events(trace) : e.op = "publish_feature_layer" /\ e.title = title

\* the run has ended after reaching the `if` on the assets table (line 492),
\* respectively the one on the trails table (line 502)
AssetsTestDone == Terminated /\ AgoConnected
TrailsTestDone ==
    AssetsTestDone /\ ~Did("publish_feature_layer", AstTitle, "raised")

\* C3: with an empty assets table no call is made for the assets title, the
\* error is logged, the trails publish is called when the trails table has
\* rows, and the run ends normally when that publish succeeds (or the trails
\* table is empty too).  With an empty trails table no call is made for the
\* trails title, the assets publish is called when the assets table has rows
\* and, when it did not raise, the error is logged and the run ends normally.
C3_EmptyDatasetSkipped ==
    /\ Len(gdf_ast) = 0 =>
          /\ RemoteCalls(AstTitle) = {}
          /\ AssetsTestDone =>
                /\ Error("Assets dataset is empty") \in Events(log)
                /\ gdf_trl > 0 => PublishCalled(TrlTitle)
                /\ (gdf_trl = 0 \/ Did("publish_feature_layer", TrlTitle, "ok"))
                      => pc = "done"
    /\ gdf_trl = 0 =>
          /\ RemoteCalls(TrlTitle) = {}
          /\ AssetsTestDone => (Len(gdf_ast) > 0 => PublishCalled(AstTitle))
          /\ TrailsTestDone =>
                /\ Error("Trails dataset is empty") \in Events(log)
                /\ pc = "done"

\* an empty assets table out of a non-empty input, trails published, normal end
C3_Witness ==
    /\ pc = "done" /\ df_ast # << >> /\ gdf_ast = << >> /\ gdf_trl > 0
    /\ Error("Assets dataset is empty") \in Events(log)
    /\ Did("publish_feature_layer", TrlTitle, "ok")
    /\ RemoteCalls(AstTitle) = {}

\* C4 as stated: when the assets publish raised and the trails table has
\* rows, the trails publish is attempted before the run ends.
C4_TrailsStillAttempted ==
    (Terminated /\ Did("publish_feature_layer", AstTitle, "raised") /\ gdf_trl > 0)
        => RemoteCalls(TrlTitle) # {}

\* C4 amended: once the assets publish has raised no call is made for the
\* trails title; the run ends by the exception, with the session closed.
C4_AssetsFailureAbortsPhase ==
    Did("publish_feature_layer", AstTitle, "raised") =>
        /\ RemoteCalls(TrlTitle) = {}
        /\ pc \in {"L515", "failed"}
        /\ pending = "Exception"
        /\ Terminated => Did("ago.disconnect", "", "ok") /\ gis = "None"

\* the assets upload raised, the trails table has rows, the run has ended
C4_Witness ==
    /\ pc = "failed" /\ gdf_trl > 0
    /\ Did("add", AstTitle, "raised")
    /\ Did("publish_feature_layer", AstTitle, "raised")

\* C10: the publish phase runs only after a database phase in which nothing
\* raised and pg.disconnect ran; a failure in the database phase (connect
\* returning null included) ends the run by an exception with no session
\* opened, no call to the platform and the store as it was; the connection
\* and the session are never open together.
C10_PhasesInSequence ==
    /\ pc \in PublishPhase =>
          /\ ~DbPhaseFailed /\ conn = "open"
          /\ Did("process_trails", "", "ok")
          /\ Did("pg.disconnect", "", "ok") /\ connection = "None"
    /\ DbPhaseFailed =>
          /\ pc \notin PublishPhase
          /\ gis = "None" /\ store = store0
          /\ \A e \in Events(trace) : e.op \notin RemoteOps \cup {"GIS", "ago.connect"}
    /\ ~(connection # "None" /\ gis # "None")

\* the run ended by an exception after connect returned null, the store
\* holding published items
C10_Witness ==
    /\ pc = "failed" /\ conn = "None"
    /\ Did("read_assets", "", "raised")
    /\ store = store0 /\ store0 = Pool

----------------------------------------------------------------------------
(* Properties of process_assets *)

\* The condition of the claim on an input row
KeptRow(r) ==
    /\ r.asset_category \in cats
    /\ ~r.gis_latitude.isna /\ ~r.gis_longitude.isna
    /\ 47 <= r.gis_latitude.v /\ r.gis_latitude.v <= 60
    /\ -145 <= r.gis_longitude.v /\ r.gis_longitude.v <= -113

KeptIndexes(df) == {i \in DOMAIN df : KeptRow(df[i])}

\* the index in df of the j-th kept row
NthKept(df, j) ==
    CHOOSE i \in KeptIndexes(df) :
        Cardinality({k \in KeptIndexes(df) : k < i}) = j - 1

\* C6: the output of process_assets holds exactly the input rows whose
\* category is in the allow-list and whose coordinates are present and in
\* the box (bounds included), in input order; so every output row has an
\* allow-list category and coordinates in the box, and the 10-row scenario
\* gives 6 rows.
C6_FilterExact ==
    pc = "processed" =>
        /\ Len(gdf_ast) = Cardinality(KeptIndexes(df_ast))
        /\ \A j \in DOMAIN gdf_ast :
              LET r == df_ast[NthKept(df_ast, j)]
                  o == gdf_ast[j]
              IN /\ o["Category - Classification"] = r.asset_category
                 /\ o["GIS Latitude"] = r.gis_latitude
                 /\ o["GIS Longitude"] = r.gis_longitude
                 /\ o["Category - Classification"] \in cats
                 /\ o["GIS Latitude"].v \in 47..60
                 /\ o["GIS Longitude"].v \in (-145)..(-113)
        /\ df_ast = Scenario10 => Len(gdf_ast) = 6

C6_Witness ==
    /\ pc = "processed" /\ df_ast = Scenario10 /\ Len(gdf_ast) = 6
    /\ gdf_ast[2]["GIS Latitude"] = Num(47)
    /\ gdf_ast[2]["GIS Longitude"] = Num(-145)

====
